---- MODULE Spec2Model ----
(***************************************************************************)
(* Model of the consent-form ingestion pipeline of informed-consent-ai:    *)
(*   api/ai_analyzer.py   AIAnalyzer (structured extraction, defaults)     *)
(*   api/ocr_processor.py OCRProcessor (primary/secondary text extraction) *)
(*   api/database.py      Patient / Consent / EntityIndex tables           *)
(*   scripts/ingest_pdf.py PDFIngestionService (identity, persistence,     *)
(*                         batch ingestion)                                *)
(*   api/app.py           login, session validation, upload, query         *)
(*                                                                         *)
(* Strings are sequences of one-character strings, so that lower(),        *)
(* split() and concatenation are computed and not assumed.  JSON values    *)
(* are records [kind, val]; kind is compared before val.                   *)
(***************************************************************************)
EXTENDS Integers, Sequences, FiniteSets, TLC

VARIABLES
    response,     \* what ollama.chat produced for the last analyze call
    analysis,     \* outcome of the last analyze_consent_form call
    ocr,          \* the extract_text_from_pdf call: its inputs, outcome, call counts
    patients,     \* committed rows of table patients
    consents,     \* committed rows of table consents
    entity_index, \* committed rows of table entity_index
    sess,         \* per ingestion process: position in _store_consent_data, locals,
                  \* rows flushed but not committed, and the last result
    writer,       \* the process whose transaction holds the SQLite write lock, or 0
    started,      \* number of ingestions started so far
    batch,        \* process_directory: position, loop index, locals, what it printed
    sessions,     \* table sessions: the row of token t is sessions[t]
    upload,       \* the upload request being served, and its response
    qa,           \* the question answered (endpoint or direct call), and its response
    search,       \* the _generate_search_terms call: its record and what it returned
    auth          \* the login or logout request last followed, and its response

storeVars == <<patients, consents, entity_index, sess, writer, started>>
appVars == <<batch, sessions, upload, qa, search, auth>>
vars ==
    <<response, analysis, ocr, patients, consents, entity_index, sess, writer, started,
      batch, sessions, upload, qa, search, auth>>

----------------------------------------------------------------------------
(* Bounds *)

\* longest run of free text before and after the JSON body of a response
MaxProse == 1

\* number of ingestions started in one behaviour
MaxDocs == 2

\* number of distinct salts bcrypt.gensalt() may return
MaxSalt == 1

----------------------------------------------------------------------------
(* Strings *)

LowerChar(c) ==
    CASE c = "A" -> "a"
      [] c = "B" -> "b"
      [] c = "G" -> "g"
      [] c = "L" -> "l"
      [] c = "M" -> "m"
      [] c = "N" -> "n"
      [] c = "U" -> "u"
      [] c = "X" -> "x"
      [] OTHER -> c

\* str.lower()
Lower(s) == [i \in 1..Len(s) |-> LowerChar(s[i])]

IsSpace(c) == c \in {" ", "\n", "\t"}

RECURSIVE SplitFrom(_, _, _, _)
SplitFrom(s, i, cur, acc) ==
    IF i > Len(s)
    THEN IF cur = <<>> THEN acc ELSE Append(acc, cur)
    ELSE IF IsSpace(s[i])
         THEN SplitFrom(s, i + 1, <<>>, IF cur = <<>> THEN acc ELSE Append(acc, cur))
         ELSE SplitFrom(s, i + 1, Append(cur, s[i]), acc)

\* str.split() with no separator: runs of non-whitespace
Split(s) == SplitFrom(s, 1, <<>>, <<>>)

RECURSIVE Join(_, _)
\* sep.join(parts) of strings
Join(sep, parts) ==
    IF parts = <<>> THEN <<>>
    ELSE IF Len(parts) = 1 THEN parts[1]
    ELSE parts[1] \o sep \o Join(sep, Tail(parts))

S_Unknown == <<"U", "n", "k", "n", "o", "w", "n">>
S_UnknownEmail == <<"u", "n", "k", "n", "o", "w", "n", "@", "e", "x">>
S_NoSummary == <<"U", "n", "a", "b", "l", "e">>
S_MariaGarcia == <<"M", "a", "r", "i", "a", " ", "G", "a", "r", "c", "i", "a">>
S_Empty == <<>>
S_EmailUpper == <<"M", "@", "X">>
S_EmailLower == <<"m", "@", "x">>
S_Item == <<"x", "r", "a", "y">>
S_Unknown123 == <<"u", "n", "k", "n", "o", "w", "n", "1", "2", "3", "!">>
S_Maria123 == <<"m", "a", "r", "i", "a", "1", "2", "3", "!">>

----------------------------------------------------------------------------
(* JSON values *)

Str(s) == [kind |-> "str", val |-> s]
Null == [kind |-> "null", val |-> <<>>]
Num(n) == [kind |-> "num", val |-> <<n>>]
List(l) == [kind |-> "list", val |-> l]
Dict(f) == [kind |-> "dict", val |-> f]

RequiredKeys ==
    {"patient_name", "patient_email", "patient_dob", "doctor_name", "procedure",
     "procedure_date", "consented_items", "declined_items", "summary"}

\* as GetDefaultAnalysis, with a null default name
GetDefaultAnalysis_NullName ==
    [k \in RequiredKeys |->
        CASE k \in {"patient_name", "patient_dob", "procedure_date"} -> Null
          [] k = "patient_email" -> Str(S_UnknownEmail)
          [] k \in {"doctor_name", "procedure"} -> Str(S_Unknown)
          [] k \in {"consented_items", "declined_items"} -> List(<<>>)
          [] k = "summary" -> Str(S_NoSummary)]

\* AIAnalyzer._get_default_analysis
GetDefaultAnalysis ==
    [k \in RequiredKeys |->
        CASE k = "patient_name" -> Str(S_Unknown)
          [] k = "patient_email" -> Str(S_UnknownEmail)
          [] k = "patient_dob" -> Null
          [] k = "doctor_name" -> Str(S_Unknown)
          [] k = "procedure" -> Str(S_Unknown)
          [] k = "procedure_date" -> Null
          [] k = "consented_items" -> List(<<>>)
          [] k = "declined_items" -> List(<<>>)
          [] k = "summary" -> Str(S_NoSummary)]

\* Outcome of a step that may raise: exc = "none" means it returned val.
Ok(v) == [exc |-> "none", val |-> v]
Raise(e) == [exc |-> e, val |-> Null]

\* as ValidateAnalysis, testing `not analysis.get(key)`: falsy values are
\* replaced too
ValidateAnalysis_Falsy(a) ==
    IF a.kind # "dict"
    THEN Raise("TypeError")
    ELSE Ok([k \in (DOMAIN a.val) \cup RequiredKeys |->
                IF k \in RequiredKeys
                     /\ (k \notin DOMAIN a.val \/ a.val[k] \in {Null, Str(<<>>), List(<<>>)})
                THEN GetDefaultAnalysis[k]
                ELSE a.val[k]])

\* AIAnalyzer._validate_analysis.  On anything but a dict, `key not in
\* analysis` or the item access/assignment raises TypeError.
ValidateAnalysis(a) ==
    IF a.kind # "dict"
    THEN Raise("TypeError")
    ELSE Ok([k \in (DOMAIN a.val) \cup RequiredKeys |->
                IF k \in RequiredKeys /\ (k \notin DOMAIN a.val \/ a.val[k] = Null)
                THEN GetDefaultAnalysis[k]
                ELSE a.val[k]])

----------------------------------------------------------------------------
(* Response text: a sequence of tokens.  Braces and free text are tokens   *)
(* of their own; a "member" token is one "key": value pair of an object;   *)
(* a "scalar" token is a JSON value that is not an object.                 *)

Tok(t, k, v) == [key |-> k, t |-> t, val |-> v]
LBrace == Tok("{", "", Null)
RBrace == Tok("}", "", Null)
Prose == Tok("prose", "", Null)
Space == Tok("ws", "", Null)
Member(k, v) == Tok("member", k, v)
Scalar(v) == Tok("scalar", "", v)

RECURSIVE Strip(_)
\* str.strip()
Strip(text) ==
    IF text = <<>> THEN text
    ELSE IF Head(text) = Space THEN Strip(Tail(text))
    ELSE IF text[Len(text)] = Space THEN Strip(SubSeq(text, 1, Len(text) - 1))
    ELSE text

\* re.search(r'\{.*\}', text, re.DOTALL): from the first "{" to the last "}"
\* after it; <<>> when there is no match.
JsonMatch(text) ==
    LET opens == {i \in 1..Len(text) : text[i] = LBrace}
        first == CHOOSE i \in opens : \A j \in opens : i <= j
        closes == {j \in 1..Len(text) : text[j] = RBrace /\ j > first}
        last == CHOOSE j \in closes : \A i \in closes : i <= j
    IN  IF opens = {} THEN <<>>
        ELSE IF closes = {} THEN <<>>
        ELSE SubSeq(text, first, last)

NoSpace(text) == SelectSeq(text, LAMBDA x : x # Space)

RECURSIVE MembersToDict(_)
\* later members win, as in json.loads
MembersToDict(ms) ==
    IF ms = <<>> THEN <<>>
    ELSE LET rest == MembersToDict(SubSeq(ms, 1, Len(ms) - 1))
             m == ms[Len(ms)]
         IN  [k \in (DOMAIN rest) \cup {m.key} |-> IF k = m.key THEN m.val ELSE rest[k]]

\* json.loads on the token text
JsonLoads(text) ==
    LET t == NoSpace(text)
    IN  IF Len(t) = 1 /\ t[1].t = "scalar" THEN Ok(t[1].val)
        ELSE IF /\ Len(t) >= 2
                /\ t[1] = LBrace
                /\ t[Len(t)] = RBrace
                /\ \A i \in 2..(Len(t) - 1) : t[i].t = "member"
             THEN Ok(Dict(MembersToDict(SubSeq(t, 2, Len(t) - 1))))
        ELSE Raise("JSONDecodeError")

\* lines 72-77 of analyze_consent_form: the stripped content, narrowed to the
\* regex match when there is one
ResponseText(r) ==
    LET stripped == Strip(r.content)
        m == JsonMatch(stripped)
    IN  IF m # <<>> THEN m ELSE stripped

\* The try block of AIAnalyzer.analyze_consent_form, from the capability's
\* outcome r:
\*   r.status = "raise"  ollama.chat raised
\*   r.status = "nokey"  the response has no ['message']['content']
\*   r.status = "ok"     the content is r.content
AnalyzeBody(r) ==
    IF r.status = "raise" THEN Raise("ResponseError")
    ELSE IF r.status = "nokey" THEN Raise("KeyError")
    ELSE LET parsed == JsonLoads(ResponseText(r))
         IN  IF parsed.exc # "none" THEN parsed
             ELSE ValidateAnalysis(parsed.val)

\* as AnalyzeHandlers, without the `except Exception` clause
AnalyzeHandlers_OnlyDecodeError(out) ==
    IF out.exc = "none" THEN out
    ELSE IF out.exc = "JSONDecodeError" THEN Ok(GetDefaultAnalysis)
    ELSE out

\* the two except clauses of analyze_consent_form
AnalyzeHandlers(out) ==
    IF out.exc = "none" THEN out
    ELSE IF out.exc = "JSONDecodeError" THEN Ok(GetDefaultAnalysis)
    ELSE Ok(GetDefaultAnalysis)

AnalyzeConsentFormOf(r) == AnalyzeHandlers(AnalyzeBody(r))

----------------------------------------------------------------------------
(* Capability responses the analyzer is run on *)

KeyOrder ==
    <<"patient_name", "patient_email", "patient_dob", "doctor_name", "procedure",
      "procedure_date", "consented_items", "declined_items", "summary", "note">>

\* keys that the enumerated response objects may carry ("note" is not a
\* field of the record)
VaryKeys == {"patient_name", "patient_email", "patient_dob", "consented_items", "note"}

SampleValues(k) ==
    CASE k = "patient_name" -> {Str(S_MariaGarcia), Str(S_Empty), Null}
      [] k = "patient_email" -> {Str(S_EmailUpper), Null}
      [] k = "patient_dob" -> {Str(<<"1", "9", "8", "5">>), Null}
      [] k = "consented_items" -> {List(<<Str(S_Item)>>), Null}
      [] OTHER -> {Num(7)}

AllSampleValues == UNION {SampleValues(k) : k \in VaryKeys}

Objects ==
    UNION {{f \in [D -> AllSampleValues] : \A k \in D : f[k] \in SampleValues(k)} :
             D \in SUBSET VaryKeys}

\* the text of a JSON object: "{", one member per key, "}"
Render(f) ==
    LET keys == SelectSeq(KeyOrder, LAMBDA k : k \in DOMAIN f)
    IN  <<LBrace>> \o [i \in 1..Len(keys) |-> Member(keys[i], f[keys[i]])] \o <<RBrace>>

Bodies ==
    {Render(f) : f \in Objects}
        \cup {<<>>, <<Scalar(Num(7))>>, <<Scalar(Null)>>, <<Scalar(List(<<>>))>>,
              <<Scalar(Str(S_Item))>>}

ProseTokens == {Prose, LBrace, RBrace, Space}
ProseRuns == UNION {[1..n -> ProseTokens] : n \in 0..MaxProse}

Responses ==
    {[status |-> "raise", content |-> <<>>], [status |-> "nokey", content |-> <<>>]}
        \cup {[status |-> "ok", content |-> pre \o body \o post] :
                pre \in ProseRuns, body \in Bodies, post \in ProseRuns}

NoResponse == [status |-> "none", content |-> <<>>]

----------------------------------------------------------------------------
(* Text extraction.  A text is lead whitespace, a core that starts and     *)
(* ends with a non-whitespace character (or is empty), trail whitespace.   *)

\* longest core of an extracted text
MaxCore == 52

\* ocr_processor.py line 46: the length that text.strip() must exceed
MinTextLen == 50

Text(l, c, t) == [lead |-> l, core |-> c, trail |-> t]
TextLen(x) == x.lead + x.core + x.trail
\* len(text.strip())
StripLen(x) == x.core

PrimaryTexts == {Text(l, c, 0) : l \in 0..1, c \in 0..MaxCore}
SecondaryTexts == {Text(1, c, 1) : c \in {0, MaxCore}}

\* an outcome is a text, or an exception whose message describes the
\* failures named in causes
OkText(x) == [exc |-> "none", text |-> x, causes |-> {}]
RaiseText(e) == [exc |-> e, text |-> Text(0, 0, 0), causes |-> {}]

\* line 81: Exception("pdfplumber extraction failed: ...")
PdfplumberFailed == [RaiseText("Exception") EXCEPT !.causes = {"pdfplumber"}]
\* lines 114-116: Exception("Tesseract extraction failed: ...")
TesseractFailed == [RaiseText("Exception") EXCEPT !.causes = {"tesseract"}]

PrimaryOutcomes == {PdfplumberFailed} \cup {OkText(x) : x \in PrimaryTexts}
SecondaryOutcomes == {TesseractFailed} \cup {OkText(x) : x \in SecondaryTexts}

\* as Sufficient, against a threshold one too high
Sufficient_High(x) == StripLen(x) > MinTextLen + 1

\* the test of line 46
Sufficient(x) == StripLen(x) > MinTextLen

\* OCRProcessor.extract_text_from_pdf: prim is what _extract_with_pdfplumber
\* does when called, sec1 and sec2 what the first and the second call of
\* _extract_with_tesseract do.  Yields the outcome and the two call counts.
ExtractTextFromPdfOf(engine, exists, prim, sec1, sec2) ==
    LET out(res, pc, sc) == [result |-> res, primCalls |-> pc, secCalls |-> sc]
    IN  IF ~exists THEN out(RaiseText("FileNotFoundError"), 0, 0)
        ELSE IF engine = "pdfplumber" THEN out(prim, 1, 0)
        ELSE IF engine = "tesseract" THEN out(sec1, 0, 1)
        ELSE IF prim.exc # "none" THEN out(sec1, 1, 1)
        ELSE IF Sufficient(prim.text) THEN out(prim, 1, 0)
        \* line 50 is inside the try block: its exception reaches line 51
        ELSE IF sec1.exc = "none" THEN out(sec1, 1, 1)
        ELSE out(sec2, 1, 2)

Pending == [exc |-> "pending", val |-> Null]

NoExtraction ==
    [engine |-> "none", exists |-> FALSE, prim |-> RaiseText("unset"),
     sec1 |-> RaiseText("unset"), sec2 |-> RaiseText("unset"),
     result |-> RaiseText("unset"), primCalls |-> 0, secCalls |-> 0]

\* a call of extract_text_from_pdf about to run on the given engine, file
\* and provider outcomes
ExtractionCalls ==
    {[engine |-> engine, exists |-> exists, prim |-> prim, sec1 |-> sec1,
      sec2 |-> sec2, result |-> RaiseText("pending"), primCalls |-> 0,
      secCalls |-> 0] :
        engine \in {"pdfplumber", "tesseract", "auto"}, exists \in BOOLEAN,
        prim \in PrimaryOutcomes,
        sec1 \in SecondaryOutcomes, sec2 \in SecondaryOutcomes}

----------------------------------------------------------------------------
(* The store (api/database.py) and PDFIngestionService._store_consent_data *)

\* concurrent callers of process_pdf
Procs == {1, 2}

\* Patient.set_password: bcrypt.hashpw(password, bcrypt.gensalt())
BcryptHash(pw, salt) == [kind |-> "bcrypt", val |-> <<salt, pw>>]

\* Patient.check_password
CheckPassword(row, pw) == row.password_hash.val[2] = pw

S_Suffix == <<"1", "2", "3", "!">>

\* ingest_pdf.py lines 101-102, for a name that has a first token
DefaultPassword(name) == Lower(Split(name)[1]) \o S_Suffix

\* as NormalizeEmail, without .lower()
NormalizeEmail_Raw(e) == e

\* ingest_pdf.py line 86: the lookup key of a record's email
NormalizeEmail(e) == Lower(e)

\* as UniqueViolation, for a column declared without unique=True
UniqueViolation_None(email) == FALSE

\* database.py line 21, unique=True: an INSERT of this email is rejected
UniqueViolation(email) == \E r \in patients : r.email = email

\* the rowid SQLite gives the next row of a table (INTEGER PRIMARY KEY)
NextId(rows) ==
    IF rows = {} THEN 1
    ELSE (CHOOSE i \in {r.id : r \in rows} : \A r \in rows : r.id <= i) + 1

\* Query.first(): the row of lowest rowid, NoRow when there is none
NoRow == [id |-> 0]
First(rows) ==
    IF rows = {} THEN NoRow
    ELSE CHOOSE r \in rows : \A q \in rows : r.id <= q.id

\* validated records handed to _store_consent_data
IngestRecords ==
    {ValidateAnalysis(Dict([patient_name |-> Str(n), patient_email |-> Str(e)])).val :
        n \in {S_MariaGarcia, S_Unknown, S_Empty},
        e \in {S_EmailUpper, S_EmailLower, S_UnknownEmail}}

\* bool(v) of a JSON value
Truthy(v) ==
    CASE v.kind = "str" -> v.val # <<>>
      [] v.kind = "null" -> FALSE
      [] v.kind = "num" -> v.val # <<0>>
      [] v.kind = "list" -> v.val # <<>>
      [] v.kind = "dict" -> DOMAIN v.val # {}

\* analysis.get(key)
GetField(rec, k) == IF k \in DOMAIN rec THEN rec[k] ELSE Null

\* the fields _generate_search_terms reads
TermKeys == {"patient_name", "patient_email", "procedure", "doctor_name"}

\* one `if analysis.get(key):` block: the lower-cased value, for the name
\* followed by its whitespace-split parts; nothing for a falsy value
TermsOf(v, parts) ==
    IF ~Truthy(v) THEN <<>>
    ELSE IF parts THEN <<Lower(v.val)>> \o Split(Lower(v.val))
    ELSE <<Lower(v.val)>>

\* _generate_search_terms lines 167-185: the list `terms`
SearchTermList(rec) ==
    TermsOf(GetField(rec, "patient_name"), TRUE)
        \o TermsOf(GetField(rec, "patient_email"), FALSE)
        \o TermsOf(GetField(rec, "procedure"), FALSE)
        \o TermsOf(GetField(rec, "doctor_name"), FALSE)

\* .lower() of a truthy value that is no string raises AttributeError
TermsRaise(rec) ==
    \E k \in TermKeys : Truthy(GetField(rec, k)) /\ GetField(rec, k).kind # "str"

SeqRange(q) == {q[i] : i \in 1..Len(q)}

RECURSIVE Perms(_)
\* the orders in which a set can be iterated
Perms(S) ==
    IF S = {} THEN {<<>>}
    ELSE UNION {{<<x>> \o q : q \in Perms(S \ {x})} : x \in S}

\* as SearchTermOrders, joining the list itself: duplicates are kept
SearchTermOrders_NoSet(terms) == {terms}

\* line 187, set(terms) as ' '.join iterates it: every distinct term once, in
\* an order that depends on the string hashes of the run
SearchTermOrders(terms) == Perms(SeqRange(terms))

\* the distinct terms in the order of their first occurrence, one of the
\* orders of SearchTermOrders
Dedup(terms) ==
    LET firsts == {i \in 1..Len(terms) : \A j \in 1..(i - 1) : terms[j] # terms[i]}
        nth(k) == CHOOSE i \in firsts : Cardinality({j \in firsts : j < i}) = k - 1
    IN  [k \in 1..Cardinality(firsts) |-> terms[nth(k)]]

\* column search_terms: the stored string is kept as the set of its
\* whitespace-separated words, which the order of a join does not change
SearchWords(text) == SeqRange(Split(text))

\* _generate_search_terms, given the iteration order of the set
GenerateSearchTermsOf(rec, order) ==
    IF TermsRaise(rec) THEN Raise("AttributeError")
    ELSE Ok(Str(Join(<<" ">>, order)))

\* line 140: the words of the string _generate_search_terms returns for a
\* record, the same for every order of SearchTermOrders; each stage of the
\* computation is bound as a value
ScriptSearchWords(rec) ==
    CHOOSE w \in {SearchWords(text) :
                    text \in {GenerateSearchTermsOf(rec, order).val.val :
                                order \in {Dedup(l) : l \in {SearchTermList(rec)}}}} : TRUE

\* records handed to _generate_search_terms
TermRecords ==
    {ValidateAnalysis(Dict([patient_name |-> Str(n), patient_email |-> Str(e),
                            procedure |-> p, doctor_name |-> Str(w)])).val :
        n \in {S_MariaGarcia, S_Unknown, S_Empty}, e \in {S_EmailUpper, S_UnknownEmail},
        p \in {Str(S_Item), Str(S_Unknown), Num(7)}, w \in {S_Unknown, S_MariaGarcia}}

NoSearch == [pc |-> "none", rec |-> GetDefaultAnalysis, terms |-> <<>>, out |-> Raise("pending")]

\* one call of _generate_search_terms
GenerateSearchTerms ==
    /\ search.pc = "call"
    /\ \E order \in (IF TermsRaise(search.rec) THEN {<<>>}
                      ELSE SearchTermOrders(SearchTermList(search.rec))) :
           search' = [search EXCEPT !.pc = "done", !.terms = order,
                                    !.out = GenerateSearchTermsOf(search.rec, order)]
    /\ UNCHANGED <<response, analysis, ocr, auth, batch, sessions, upload, qa>>
    /\ UNCHANGED storeVars

NoResult ==
    [exc |-> "pending", patient_id |-> 0, patient_name |-> Null, patient_email |-> Null,
     default_password |-> Null, consent_id |-> 0, filename |-> 0]

IdleSess ==
    [pc |-> "idle", doc |-> 0, rec |-> GetDefaultAnalysis, email |-> <<>>,
     patient |-> NoRow, found |-> FALSE, newPatients |-> {}, newConsents |-> {},
     default_password |-> Null, result |-> NoResult]

\* json.dumps of a value into a Text column, and json.loads of the column
JsonDumps(v) == [kind |-> "text", val |-> v]
JsonLoadsText(t) == t.val

\* as Fail, committing instead of rolling back what had been flushed
Fail_NoRollback(p, e) ==
    /\ sess' = [sess EXCEPT ![p].pc = "done", ![p].newPatients = {}, ![p].newConsents = {},
                            ![p].result = [NoResult EXCEPT !.exc = e]]
    /\ writer' = IF writer = p THEN 0 ELSE writer
    /\ patients' = patients \cup sess[p].newPatients
    /\ consents' = consents \cup sess[p].newConsents
    /\ UNCHANGED <<entity_index, started>>

\* the except/finally clauses of _store_consent_data: rollback, raise, close
Fail(p, e) ==
    /\ sess' = [sess EXCEPT ![p].pc = "done", ![p].newPatients = {}, ![p].newConsents = {},
                            ![p].result = [NoResult EXCEPT !.exc = e]]
    /\ writer' = IF writer = p THEN 0 ELSE writer
    /\ UNCHANGED <<patients, consents, entity_index, started>>

\* lines 82-87: the locals of a new call of _store_consent_data on document
\* doc with validated record rec
BeginWith(p, rec, doc) ==
    [sess EXCEPT ![p] =
        [IdleSess EXCEPT !.pc = "query", !.doc = doc, !.rec = rec,
                         !.email = NormalizeEmail(rec["patient_email"].val)]]

\* process_pdf line 63: _store_consent_data is called with one of recs
BeginFrom(p, recs) ==
    /\ sess[p].pc \in {"idle", "done"}
    /\ started < MaxDocs
    /\ \E rec \in recs : sess' = BeginWith(p, rec, started + 1)
    /\ started' = started + 1
    /\ UNCHANGED <<patients, consents, entity_index, writer>>

\* a caller of process_pdf reaches _store_consent_data with a validated record
Begin(p) == BeginFrom(p, IngestRecords)

\* line 90 and the branch of line 92.  The SELECT runs outside a transaction
\* and sees the committed rows.
QueryPatient(p) ==
    /\ sess[p].pc = "query"
    /\ LET row == First({r \in patients : r.email = sess[p].email})
       IN  IF row # NoRow
           THEN sess' = [sess EXCEPT ![p].pc = "consent", ![p].patient = row,
                                     ![p].found = TRUE,
                                     ![p].default_password = row.default_password]
           ELSE sess' = [sess EXCEPT ![p].pc = "create"]
    /\ UNCHANGED <<patients, consents, entity_index, writer, started>>

\* lines 93-108: build the Patient, derive and set the password, add, flush.
\* The INSERT takes the write lock and is checked against the unique index.
CreatePatient(p) ==
    /\ sess[p].pc = "create"
    /\ LET name == sess[p].rec["patient_name"].val
       IN  IF Split(name) = <<>>
           THEN Fail(p, "IndexError")
           ELSE /\ writer \in {0, p}
                /\ IF UniqueViolation(sess[p].email)
                   THEN Fail(p, "IntegrityError")
                   ELSE /\ \E salt \in 1..MaxSalt :
                              LET pw == DefaultPassword(name)
                                  row == [id |-> NextId(patients),
                                          email |-> sess[p].email,
                                          password_hash |-> BcryptHash(pw, salt),
                                          patient_name |-> name,
                                          default_password |-> Str(pw)]
                              IN  sess' = [sess EXCEPT ![p].pc = "consent",
                                                       ![p].patient = row,
                                                       ![p].newPatients = {row},
                                                       ![p].default_password = Str(pw)]
                        /\ writer' = p
                        /\ UNCHANGED <<patients, consents, entity_index, started>>

\* as ConsentRow, when the new Patient has not been flushed (line 107) and
\* has no id yet
ConsentRow_Unflushed(p) ==
    [id |-> NextId(consents),
     patient_id |-> IF sess[p].found THEN sess[p].patient.id ELSE 0,
     filename |-> sess[p].doc]

\* lines 115-121: the Consent of the document
ConsentRow(p) ==
    [id |-> NextId(consents), patient_id |-> sess[p].patient.id, filename |-> sess[p].doc]

\* lines 128-142: the EntityIndex of the document
EntityRow(p, consent) ==
    [id |-> NextId(entity_index), consent_id |-> consent.id,
     patient_id |-> sess[p].patient.id,
     patient_name |-> sess[p].rec["patient_name"],
     patient_email |-> sess[p].rec["patient_email"],
     doctor_name |-> sess[p].rec["doctor_name"],
     procedure |-> sess[p].rec["procedure"],
     consented_items |-> JsonDumps(sess[p].rec["consented_items"]),
     declined_items |-> JsonDumps(sess[p].rec["declined_items"]),
     search_terms |-> ScriptSearchWords(sess[p].rec)]

\* as CommittedPatients, with the found Patient renamed after the record
CommittedPatients_Renamed(p) ==
    IF sess[p].found
    THEN (patients \ {sess[p].patient})
            \cup {[sess[p].patient EXCEPT !.patient_name = sess[p].rec["patient_name"].val]}
    ELSE patients \cup sess[p].newPatients

\* line 147: the Patient rows after the commit; a Patient that was found
\* (lines 109-111) is not written
CommittedPatients(p) == patients \cup sess[p].newPatients

\* lines 113-124: build the Consent, add, flush
CreateConsent(p) ==
    /\ sess[p].pc = "consent"
    /\ writer \in {0, p}
    /\ LET row == ConsentRow(p)
       IN  sess' = [sess EXCEPT ![p].pc = "entity", ![p].newConsents = {row}]
    /\ writer' = p
    /\ UNCHANGED <<patients, consents, entity_index, started>>

\* lines 126-157: build the EntityIndex (the index builder raises
\* AttributeError on a field that is no string, caught at line 159), add,
\* commit, return the result
CommitEntity(p) ==
    /\ sess[p].pc = "entity"
    /\ writer = p
    /\ IF TermsRaise(sess[p].rec)
       THEN Fail(p, "AttributeError")
       ELSE LET consent == First(sess[p].newConsents)
                entity == EntityRow(p, consent)
            IN  /\ patients' = CommittedPatients(p)
                /\ consents' = consents \cup sess[p].newConsents
                /\ entity_index' = entity_index \cup {entity}
                /\ sess' = [sess EXCEPT ![p].pc = "done", ![p].newPatients = {},
                                        ![p].newConsents = {},
                                        ![p].result =
                                            [exc |-> "none",
                                             patient_id |-> sess[p].patient.id,
                                             patient_name |-> sess[p].rec["patient_name"],
                                             patient_email |-> Str(sess[p].email),
                                             default_password |-> sess[p].default_password,
                                             consent_id |-> consent.id,
                                             filename |-> sess[p].doc]]
                /\ writer' = 0
                /\ UNCHANGED started

\* lines 126-147 when the INSERT of the EntityIndex or the COMMIT fails in
\* the store (disk or I/O error): the exception reaches line 159
CommitFails(p) ==
    /\ sess[p].pc = "entity"
    /\ writer = p
    /\ Fail(p, "CommitError")

\* a flush that finds the database locked by the other transaction until the
\* busy timeout expires: sqlite3.OperationalError
DatabaseLocked(p) ==
    /\ \/ sess[p].pc = "consent"
       \/ sess[p].pc = "create" /\ Split(sess[p].rec["patient_name"].val) # <<>>
    /\ writer \notin {0, p}
    /\ Fail(p, "OperationalError")

----------------------------------------------------------------------------
(* Batch ingestion: PDFIngestionService.process_pdf and process_directory *)

\* number of PDF files found in the directory
MaxFiles == 2

\* app.py line 308: the length an uploaded document's text must reach
MinUploadLen == 50

\* what the primary extractor does on a file of the directory
BatchPrimary ==
    {PdfplumberFailed, OkText(Text(0, 10, 0)), OkText(Text(0, MaxCore, 0))}

\* what the capability answers for a file of the directory
BatchResponses ==
    {[status |-> "raise", content |-> <<>>]}
        \cup {[status |-> "ok",
                content |-> Render([patient_name |-> Str(n),
                                    patient_email |-> Str(S_EmailUpper)])] :
                    n \in {S_MariaGarcia, S_Empty}}

NoBatch ==
    [pc |-> "none", n |-> 0, i |-> 0, calls |-> <<>>, log |-> <<>>, results |-> <<>>,
     printed |-> <<>>, total |-> <<>>]

\* process_directory lines 191-203: not a directory, or no PDF in it, ends
\* the call; otherwise the loop starts on the first of n files
BatchStart ==
    /\ batch.pc = "start"
    /\ \E isdir \in BOOLEAN, n \in 0..MaxFiles :
          batch' = IF ~isdir \/ n = 0
                   THEN [batch EXCEPT !.pc = "done"]
                   ELSE [batch EXCEPT !.pc = "loop", !.n = n, !.i = 1,
                                      !.calls = [k \in 1..n |-> 0]]
    /\ UNCHANGED <<response, analysis, ocr, search, auth, sessions, upload, qa>>
    /\ UNCHANGED storeVars

\* as CapabilityCalls, with the analysis started whatever the extraction did
CapabilityCalls_Eager(out) == 1

\* process_pdf lines 50-55: analyze_consent_form, and with it the one
\* capability call, runs only once extract_text_from_pdf has returned
CapabilityCalls(out) == IF out.exc # "none" THEN 0 ELSE 1

\* process_pdf lines 47-63 on file batch.i: extract, analyze, enter
\* _store_consent_data; an exception of the extractor reaches line 76.
\* log keeps the extraction and the number of capability calls of the file.
BatchProcessPdf ==
    /\ batch.pc = "loop"
    /\ \E prim \in BatchPrimary, sec1 \in SecondaryOutcomes, sec2 \in SecondaryOutcomes,
          r \in BatchResponses :
          LET out == ExtractTextFromPdfOf("auto", TRUE, prim, sec1, sec2).result
              i == batch.i
              entry == [extract |-> out, capability |-> CapabilityCalls(out)]
          IN  IF out.exc # "none"
              THEN /\ sess' = [sess EXCEPT ![1] =
                                  [IdleSess EXCEPT !.pc = "done", !.doc = i,
                                                   !.result = [NoResult EXCEPT !.exc = out.exc]]]
                   /\ batch' = [batch EXCEPT !.pc = "store", !.calls[i] = @ + 1,
                                             !.log = Append(@, entry)]
              ELSE /\ sess' = BeginWith(1, AnalyzeConsentFormOf(r).val, i)
                   /\ batch' = [batch EXCEPT !.pc = "store", !.calls[i] = @ + 1,
                                             !.log = Append(@, entry)]
    /\ UNCHANGED <<patients, consents, entity_index, writer, started>>
    /\ UNCHANGED <<response, analysis, ocr, search, auth, sessions, upload, qa>>

\* process_pdf line 63: the steps of _store_consent_data for the file
BatchStore ==
    /\ batch.pc = "store"
    /\ \/ QueryPatient(1)
       \/ CreatePatient(1)
       \/ CreateConsent(1)
       \/ CommitEntity(1)
       \/ CommitFails(1)
    /\ UNCHANGED <<response, analysis, ocr>>
    /\ UNCHANGED appVars

\* as BatchAfter, without the try/except of lines 206-211: the exception
\* leaves process_directory
BatchAfter_Abort(b, res) ==
    LET next == IF b.i = b.n THEN "summary" ELSE "loop"
    IN  IF res.exc = "none"
        THEN [b EXCEPT !.results = Append(@, res), !.i = @ + 1, !.pc = next]
        ELSE [b EXCEPT !.pc = "aborted"]

\* process_directory lines 206-211 once process_pdf has returned res or
\* raised res.exc: append the result, or print the failure and continue
BatchAfter(b, res) ==
    LET next == IF b.i = b.n THEN "summary" ELSE "loop"
    IN  IF res.exc = "none"
        THEN [b EXCEPT !.results = Append(@, res), !.i = @ + 1, !.pc = next]
        ELSE [b EXCEPT !.printed = Append(@, [file |-> b.i, reason |-> res.exc]),
                       !.i = @ + 1, !.pc = next]

BatchCollect ==
    /\ batch.pc = "store"
    /\ sess[1].pc = "done"
    /\ batch' = BatchAfter(batch, sess[1].result)
    /\ sess' = [sess EXCEPT ![1] = IdleSess]
    /\ UNCHANGED <<patients, consents, entity_index, writer, started>>
    /\ UNCHANGED <<response, analysis, ocr, search, auth, sessions, upload, qa>>

\* lines 213-221: print "Total processed: len(results)/len(pdf_files)" and
\* the account of each result; the function returns None
BatchSummary ==
    /\ batch.pc = "summary"
    /\ batch' = [batch EXCEPT !.pc = "done", !.total = <<Len(batch.results), batch.n>>]
    /\ UNCHANGED <<response, analysis, ocr, search, auth, sessions, upload, qa>>
    /\ UNCHANGED storeVars

----------------------------------------------------------------------------
(* Question answering: AIAnalyzer.answer_query *)

Msg(m) == [kind |-> "message", val |-> m]

\* ai_analyzer.py line 147
FallbackMessage == Msg("I apologize, but I'm having trouble processing your query right now. Please try again.")
\* app.py lines 180-181
NoConsentsMessage == Msg("I could not find any consent forms associated with your account.")
\* ai_analyzer.py line 152
NoFormsContext == Msg("No consent forms found.")

S_Answer == <<" ", "y", "e", "s">>
S_Sep == <<",", " ">>
S_NoneListed == <<"N", "o", "n", "e">>

RECURSIVE StripStr(_)
\* str.strip() of a string
StripStr(s) ==
    IF s = <<>> THEN s
    ELSE IF IsSpace(Head(s)) THEN StripStr(Tail(s))
    ELSE IF IsSpace(s[Len(s)]) THEN StripStr(SubSeq(s, 1, Len(s) - 1))
    ELSE s

\* ', '.join(v) or 'None listed' (lines 162-163): v must be an iterable of
\* str; a list with another item, or a number, raises TypeError
JoinItems(v) ==
    LET some(s) == IF s = <<>> THEN S_NoneListed ELSE s
    IN  IF v.kind = "list"
        THEN IF \A i \in 1..Len(v.val) : v.val[i].kind = "str"
             THEN Ok(some(Join(S_Sep, [i \in 1..Len(v.val) |-> v.val[i].val])))
             ELSE Raise("TypeError")
        ELSE IF v.kind = "str"
        THEN Ok(some(Join(S_Sep, [i \in 1..Len(v.val) |-> <<v.val[i]>>])))
        ELSE Raise("TypeError")

\* _format_consents_for_context: one numbered block per entry
FormatConsentsForContext(entries) ==
    IF entries = <<>> THEN Ok(NoFormsContext)
    ELSE IF \E i \in 1..Len(entries) :
               \/ JoinItems(entries[i].consented_items).exc # "none"
               \/ JoinItems(entries[i].declined_items).exc # "none"
    THEN Raise("TypeError")
    ELSE Ok([i \in 1..Len(entries) |->
               [idx |-> i, patient |-> entries[i].patient_name,
                consented |-> JoinItems(entries[i].consented_items).val,
                declined |-> JoinItems(entries[i].declined_items).val]])

\* what ollama.chat does when answer_query calls it
CapOutcomes ==
    {[status |-> "raise", content |-> <<>>], [status |-> "nokey", content |-> <<>>],
     [status |-> "ok", content |-> S_Answer]}

\* AIAnalyzer.answer_query: the context is formatted at line 112, before the
\* try block; the capability is called once at line 133.  Yields the answer
\* or the exception, and the number of capability calls.
AnswerQueryOf(entries, cap) ==
    LET context == FormatConsentsForContext(entries)
        out(e, a, c) == [exc |-> e, answer |-> a, capability |-> c, context |-> context]
    IN  IF context.exc # "none" THEN out(context.exc, Null, 0)
        ELSE IF cap.status = "ok" THEN out("none", Str(StripStr(cap.content)), 1)
        ELSE out("none", FallbackMessage, 1)

----------------------------------------------------------------------------
(* The web API (api/app.py): sessions, upload, query *)

\* number of sessions issued in one behaviour
MaxSessions == 1

NoUpload ==
    [pc |-> "idle", patient_id |-> 0, rec |-> GetDefaultAnalysis,
     consent |-> NoRow, status |-> 0, error |-> "none", token |-> 0,
     extract |-> 0, capability |-> 0]

NoQuery ==
    [kind |-> "none", status |-> 0, exc |-> "none", answer |-> Null, entries |-> <<>>,
     asked |-> FALSE, capability |-> 0, cap |-> "none",
     token |-> 0, patient_id |-> 0, context |-> Raise("pending")]

\* what the capability answers for a document of the web scenario: a full
\* object, an object whose consented_items are not strings, or nothing
WebResponses ==
    {[status |-> "raise", content |-> <<>>]}
        \cup {[status |-> "ok",
                content |-> Render([patient_name |-> Str(S_MariaGarcia),
                                    patient_email |-> Str(S_EmailUpper),
                                    consented_items |-> List(items)])] :
                    items \in {<<Str(S_Item)>>, <<Num(7)>>}}
WebRecords == {AnalyzeConsentFormOf(r).val : r \in WebResponses}

\* credentials typed into the login form
LoginEmails == {S_EmailUpper, S_UnknownEmail}
LoginPasswords == {DefaultPassword(S_MariaGarcia), DefaultPassword(S_Unknown), S_Item}

\* as LoginOf, without the check of the password
LoginOf_AnyPassword(e, pw) ==
    LET email == Lower(StripStr(e))
        password == StripStr(pw)
        patient == First({r \in patients : r.email = email})
        out(s, m, pid) == [status |-> s, error |-> m, patient_id |-> pid]
    IN  IF email = <<>> \/ password = <<>>
        THEN out(400, "Email and password required", 0)
        ELSE IF patient = NoRow THEN out(401, "Invalid credentials", 0)
        ELSE IF writer # 0 THEN out(500, "Login failed", 0)
        ELSE out(200, "none", patient.id)

\* login, lines 45-91, for the typed email and password: the response, and
\* the Session row committed for a patient whose bcrypt hash matches; the
\* commit needs the write lock, and without it the handler of line 89
\* answers 500
LoginOf(e, pw) ==
    LET email == Lower(StripStr(e))
        password == StripStr(pw)
        patient == First({r \in patients : r.email = email})
        out(s, m, pid) == [status |-> s, error |-> m, patient_id |-> pid]
    IN  IF email = <<>> \/ password = <<>>
        THEN out(400, "Email and password required", 0)
        ELSE IF patient = NoRow THEN out(401, "Invalid credentials", 0)
        ELSE IF ~CheckPassword(patient, password) THEN out(401, "Invalid credentials", 0)
        ELSE IF writer # 0 THEN out(500, "Login failed", 0)
        ELSE out(200, "none", patient.id)

\* a login that succeeds, its response not followed
Login ==
    /\ Len(sessions) < MaxSessions
    /\ \E e \in LoginEmails, pw \in LoginPasswords :
          /\ LoginOf(e, pw).status = 200
          /\ sessions' = Append(sessions, [patient_id |-> LoginOf(e, pw).patient_id,
                                           state |-> "live"])
    /\ UNCHANGED <<response, analysis, ocr, search, auth, batch, upload, qa>>
    /\ UNCHANGED storeVars

NoAuth ==
    [kind |-> "none", status |-> 0, error |-> "none", token |-> 0, email |-> <<>>,
     password |-> <<>>]

\* one POST /api/login and its response; auth keeps what was typed and the
\* token handed out. A client may type the credentials above, an empty
\* email, a blank password
LoginRequest ==
    /\ Len(sessions) < MaxSessions
    /\ \E e \in LoginEmails \cup {S_Empty}, pw \in LoginPasswords \cup {<<" ">>} :
          LET o == LoginOf(e, pw)
          IN  /\ sessions' = IF o.status = 200
                             THEN Append(sessions, [patient_id |-> o.patient_id,
                                                    state |-> "live"])
                             ELSE sessions
              /\ auth' = [kind |-> "login", status |-> o.status, error |-> o.error,
                          token |-> IF o.status = 200 THEN Len(sessions) + 1 ELSE 0,
                          email |-> e, password |-> pw]
    /\ UNCHANGED <<response, analysis, ocr, search, batch, upload, qa>>
    /\ UNCHANGED storeVars

\* the clock passes expires_at of a session
Expire ==
    /\ \E t \in DOMAIN sessions :
          /\ sessions[t].state = "live"
          /\ sessions' = [sessions EXCEPT ![t].state = "expired"]
    /\ UNCHANGED <<response, analysis, ocr, search, auth, batch, upload, qa>>
    /\ UNCHANGED storeVars

\* as ValidateSession, without the test of expires_at
ValidateSession_NoExpiry(token) ==
    LET out(e, pid, rows) == [exc |-> e, patient_id |-> pid, sessions |-> rows]
    IN  IF token \notin DOMAIN sessions THEN out("none", 0, sessions)
        ELSE IF sessions[token].state = "deleted" THEN out("none", 0, sessions)
        ELSE out("none", sessions[token].patient_id, sessions)

\* validate_session: the patient_id of a live session; an expired session
\* is deleted (and the delete needs the write lock), token 0 is no token
ValidateSession(token) ==
    LET out(e, pid, rows) == [exc |-> e, patient_id |-> pid, sessions |-> rows]
    IN  IF token \notin DOMAIN sessions THEN out("none", 0, sessions)
        ELSE IF sessions[token].state = "deleted" THEN out("none", 0, sessions)
        ELSE IF sessions[token].state = "expired"
        THEN IF writer # 0 THEN out("OperationalError", 0, sessions)
             ELSE out("none", 0, [sessions EXCEPT ![token].state = "deleted"])
        ELSE out("none", sessions[token].patient_id, sessions)

\* a token that login never hands out
UnknownToken == MaxSessions + 1

\* as LogoutOf, answering without deleting the row
LogoutOf_KeepsRow(token) ==
    LET out(s, m, rows) == [status |-> s, error |-> m, sessions |-> rows]
    IN  IF token = 0 THEN out(400, "No session token provided", sessions)
        ELSE out(200, "none", sessions)

\* logout, lines 97-115, for a token: 400 without a token; the row of the
\* token, if there is one, is deleted whatever its expiry; the delete needs
\* the write lock, and without it the handler of line 113 answers 500 and
\* the row stays
LogoutOf(token) ==
    LET out(s, m, rows) == [status |-> s, error |-> m, sessions |-> rows]
    IN  IF token = 0 THEN out(400, "No session token provided", sessions)
        ELSE IF token \notin DOMAIN sessions THEN out(200, "none", sessions)
        ELSE IF sessions[token].state = "deleted" THEN out(200, "none", sessions)
        ELSE IF writer # 0 THEN out(500, "Logout failed", sessions)
        ELSE out(200, "none", [sessions EXCEPT ![token].state = "deleted"])

\* a logout that deletes a session row, its response not followed
Logout ==
    /\ \E t \in DOMAIN sessions :
          /\ LogoutOf(t).sessions # sessions
          /\ sessions' = LogoutOf(t).sessions
    /\ UNCHANGED <<response, analysis, ocr, search, auth, batch, upload, qa>>
    /\ UNCHANGED storeVars

\* the one POST /api/logout followed, with no token (0), the token of a
\* session row or an unknown one, and its response; auth keeps the token
LogoutRequest ==
    /\ auth = NoAuth
    /\ \E token \in {0, UnknownToken} \cup DOMAIN sessions :
          LET o == LogoutOf(token)
          IN  /\ sessions' = o.sessions
              /\ auth' = [NoAuth EXCEPT !.kind = "logout", !.status = o.status,
                                        !.error = o.error, !.token = token]
    /\ UNCHANGED <<response, analysis, ocr, search, batch, upload, qa>>
    /\ UNCHANGED storeVars

\* the name of the uploaded file (file.filename); the script's documents
\* are numbered from 1
UploadName == 0

\* what extract_text_from_pdf yields for the uploaded file (line 306)
UploadExtractions ==
    {ExtractTextFromPdfOf("auto", TRUE, prim, sec, sec).result :
        prim \in BatchPrimary, sec \in SecondaryOutcomes}

\* as UploadConsentRow, filed under the Patient of the analysis' email when
\* there is one
UploadConsentRow_ByEmail(patient_id, rec) ==
    LET found == First({r \in patients : r.email = Lower(rec["patient_email"].val)})
    IN  [id |-> NextId(consents),
         patient_id |-> IF found # NoRow THEN found.id ELSE patient_id,
         filename |-> UploadName]

\* lines 320-326: the Consent of the session's patient
UploadConsentRow(patient_id, rec) ==
    [id |-> NextId(consents), patient_id |-> patient_id, filename |-> UploadName]

\* upload_consent lines 267-330, for the one upload request followed:
\* session, file checks, extraction, length check, analysis, and the commit
\* of the Consent; extract and capability count the calls of
\* extract_text_from_pdf (line 305) and analyze_consent_form (line 312)
UploadConsent ==
    /\ upload.pc = "idle"
    /\ \E token \in 0..MaxSessions, pdf \in BOOLEAN, out \in UploadExtractions,
          r \in WebResponses :
          LET v == ValidateSession(token)
              rec == AnalyzeConsentFormOf(r).val
              row == UploadConsentRow(v.patient_id, rec)
              reply(s, e, x, a) ==
                  [NoUpload EXCEPT !.pc = "done", !.status = s, !.error = e,
                                   !.token = token, !.extract = x, !.capability = a]
          IN  /\ sessions' = v.sessions
              /\ IF v.exc # "none"
                 THEN upload' = reply(500, v.exc, 0, 0) /\ UNCHANGED consents
                 ELSE IF v.patient_id = 0
                 THEN upload' = reply(401, "Invalid or expired session", 0, 0)
                      /\ UNCHANGED consents
                 ELSE IF ~pdf
                 THEN upload' = reply(400, "Only PDF files are allowed", 0, 0)
                      /\ UNCHANGED consents
                 ELSE IF out.exc # "none"
                 THEN upload' = reply(500, out.exc, 1, 0) /\ UNCHANGED consents
                 ELSE IF TextLen(out.text) < MinUploadLen
                 THEN upload' = reply(400, "Could not extract text from PDF", 1, 0)
                      /\ UNCHANGED consents
                 ELSE IF writer # 0
                 THEN upload' = reply(500, "OperationalError", 1, 1) /\ UNCHANGED consents
                 ELSE /\ upload' = [NoUpload EXCEPT !.pc = "entity",
                                                    !.patient_id = v.patient_id,
                                                    !.rec = rec,
                                                    !.consent = row,
                                                    !.token = token,
                                                    !.extract = 1, !.capability = 1]
                      /\ consents' = consents \cup {row}
    /\ UNCHANGED <<patients, entity_index, sess, writer, started>>
    /\ UNCHANGED <<response, analysis, ocr, search, auth, batch, qa>>

\* str(v) of a string, None or a one-digit number, the values the fields of
\* line 346-348 take in the records of the upload scenario
PyStr(v) ==
    CASE v.kind = "str" -> v.val
      [] v.kind = "null" -> <<"N", "o", "n", "e">>
      [] v.kind = "num" /\ v.val[1] \in 0..9 ->
            <<<<"0", "1", "2", "3", "4", "5", "6", "7", "8", "9">>[v.val[1] + 1]>>

\* upload_consent lines 345-350: name, doctor, procedure and the consented
\* items joined with spaces, lower-cased
UploadSearchTerms(rec) ==
    Lower(Join(<<" ">>,
               <<PyStr(GetField(rec, "patient_name")),
                 PyStr(GetField(rec, "doctor_name")),
                 PyStr(GetField(rec, "procedure")),
                 Join(<<" ">>, [i \in 1..Len(rec["consented_items"].val) |->
                                   rec["consented_items"].val[i].val])>>))

\* as UploadEntityRow, with the patient looked up by the analysis' email
UploadEntityRow_ByEmail(u) ==
    [id |-> NextId(entity_index), consent_id |-> u.consent.id,
     patient_id |-> First({r \in patients :
                             r.email = Lower(u.rec["patient_email"].val)}).id,
     patient_name |-> u.rec["patient_name"],
     patient_email |-> u.rec["patient_email"],
     doctor_name |-> u.rec["doctor_name"],
     procedure |-> u.rec["procedure"],
     consented_items |-> JsonDumps(u.rec["consented_items"]),
     declined_items |-> JsonDumps(u.rec["declined_items"]),
     search_terms |-> SearchWords(UploadSearchTerms(u.rec))]

\* lines 333-344: the EntityIndex of the uploaded document
UploadEntityRow(u) ==
    [id |-> NextId(entity_index), consent_id |-> u.consent.id,
     patient_id |-> u.patient_id,
     patient_name |-> u.rec["patient_name"],
     patient_email |-> u.rec["patient_email"],
     doctor_name |-> u.rec["doctor_name"],
     procedure |-> u.rec["procedure"],
     consented_items |-> JsonDumps(u.rec["consented_items"]),
     declined_items |-> JsonDumps(u.rec["declined_items"]),
     search_terms |-> SearchWords(UploadSearchTerms(u.rec))]

\* upload_consent lines 333-367: build the EntityIndex (the join of line
\* 349 raises TypeError on items that are not strings), add, commit; an
\* exception is answered with 500 by the handler of line 363
UploadEntity ==
    /\ upload.pc = "entity"
    /\ LET reply(s, e) == [upload EXCEPT !.pc = "done", !.status = s, !.error = e]
       IN  IF JoinItems(upload.rec["consented_items"]).exc # "none"
           THEN upload' = reply(500, "TypeError") /\ UNCHANGED entity_index
           ELSE IF writer # 0
           THEN upload' = reply(500, "OperationalError") /\ UNCHANGED entity_index
           ELSE \/ /\ upload' = reply(200, "none")
                   /\ entity_index' = entity_index \cup {UploadEntityRow(upload)}
                \/ upload' = reply(500, "CommitError") /\ UNCHANGED entity_index
    /\ UNCHANGED <<patients, consents, sess, writer, started>>
    /\ UNCHANGED <<response, analysis, ocr, search, auth, batch, sessions, qa>>

RECURSIVE RowsToSeq(_)
\* Query.all(): the rows in rowid order
RowsToSeq(rows) ==
    IF rows = {} THEN <<>>
    ELSE LET r == First(rows) IN <<r>> \o RowsToSeq(rows \ {r})

\* as ConsentDataOf, without the filter on patient_id
ConsentDataOf_Unscoped(index, patient_id) ==
    LET rows == RowsToSeq(index)
    IN  [i \in 1..Len(rows) |->
            [patient_name |-> rows[i].patient_name,
             patient_email |-> rows[i].patient_email,
             consented_items |-> JsonLoadsText(rows[i].consented_items),
             declined_items |-> JsonLoadsText(rows[i].declined_items)]]

\* query lines 173-197: the patient's rows of table entity_index (line
\* 173-175, filter on patient_id) as consent_data
ConsentDataOf(index, patient_id) ==
    LET rows == RowsToSeq({e \in index : e.patient_id = patient_id})
    IN  [i \in 1..Len(rows) |->
            [patient_name |-> rows[i].patient_name,
             patient_email |-> rows[i].patient_email,
             consented_items |-> JsonLoadsText(rows[i].consented_items),
             declined_items |-> JsonLoadsText(rows[i].declined_items)]]

ConsentData(patient_id) == ConsentDataOf(entity_index, patient_id)

\* the /api/query endpoint, lines 149-211, for the one question followed
QueryEndpoint ==
    /\ qa = NoQuery
    /\ \E token \in 0..MaxSessions, text \in {<<>>, <<" ">>, <<"q">>}, cap \in CapOutcomes :
          LET v == ValidateSession(token)
              entries == ConsentData(v.patient_id)
              a == AnswerQueryOf(entries, cap)
              reply(s, x) == [NoQuery EXCEPT !.kind = "endpoint", !.status = s, !.answer = x,
                                             !.token = token, !.patient_id = v.patient_id]
          IN  /\ sessions' = v.sessions
              /\ qa' = IF v.exc # "none" THEN reply(500, Msg("Query processing failed"))
                       ELSE IF v.patient_id = 0
                       THEN reply(401, Msg("Invalid or expired session"))
                       ELSE IF StripStr(text) = <<>>
                       THEN reply(400, Msg("Query text required"))
                       ELSE IF \A r \in patients : r.id # v.patient_id
                       THEN reply(404, Msg("Patient not found"))
                       ELSE IF entries = <<>> THEN reply(200, NoConsentsMessage)
                       ELSE [kind |-> "endpoint",
                             status |-> IF a.exc = "none" THEN 200 ELSE 500,
                             exc |-> "none",
                             answer |-> IF a.exc = "none" THEN a.answer
                                        ELSE Msg("Query processing failed"),
                             entries |-> entries, asked |-> TRUE,
                             capability |-> a.capability, cap |-> cap.status,
                             token |-> token, patient_id |-> v.patient_id,
                             context |-> a.context]
    /\ UNCHANGED <<response, analysis, ocr, search, auth, batch, upload>>
    /\ UNCHANGED storeVars

\* a direct call of AIAnalyzer.answer_query, instead of the endpoint, on the
\* entries of a patient or on no entries
AnswerQuery ==
    /\ qa = NoQuery
    /\ \E pid \in {0} \cup {r.id : r \in patients}, cap \in CapOutcomes :
          LET entries == ConsentData(pid)
              a == AnswerQueryOf(entries, cap)
          IN  qa' = [kind |-> "direct", status |-> 0, exc |-> a.exc, answer |-> a.answer,
                     entries |-> entries, asked |-> TRUE, capability |-> a.capability,
                     cap |-> cap.status, token |-> 0, patient_id |-> pid,
                     context |-> a.context]
    /\ UNCHANGED <<response, analysis, ocr, search, auth, batch, sessions, upload>>
    /\ UNCHANGED storeVars

\* the /api/stats endpoint, lines 235-261: the number of the session's
\* patient's EntityIndex rows, and the patient's name and email
Stats ==
    /\ qa = NoQuery
    /\ \E token \in 0..MaxSessions :
          LET v == ValidateSession(token)
              count == Cardinality({e \in entity_index : e.patient_id = v.patient_id})
              patient == First({r \in patients : r.id = v.patient_id})
              reply(s, x) == [NoQuery EXCEPT !.kind = "stats", !.status = s, !.answer = x,
                                             !.token = token, !.patient_id = v.patient_id]
          IN  /\ sessions' = v.sessions
              /\ qa' = IF v.exc # "none" THEN reply(500, Msg("Failed to get statistics"))
                       ELSE IF v.patient_id = 0
                       THEN reply(401, Msg("Invalid or expired session"))
                       ELSE reply(200,
                                  Dict([consent_forms |-> Num(count),
                                        patient_name |->
                                            Str(IF patient # NoRow THEN patient.patient_name
                                                ELSE S_Unknown),
                                        email |-> Str(IF patient # NoRow THEN patient.email
                                                      ELSE S_Unknown)]))
    /\ UNCHANGED <<response, analysis, ocr, search, auth, batch, upload>>
    /\ UNCHANGED storeVars

\* process_pdf run from the command line while the API serves requests
ScriptIngest ==
    /\ \/ BeginFrom(1, WebRecords)
       \/ QueryPatient(1)
       \/ CreatePatient(1)
       \/ CreateConsent(1)
       \/ CommitEntity(1)
       \/ CommitFails(1)
    /\ UNCHANGED <<response, analysis, ocr>>
    /\ UNCHANGED appVars

----------------------------------------------------------------------------
(* Actions *)

\* one call of AIAnalyzer.analyze_consent_form on the capability outcome
\* held in response
AnalyzeConsentForm ==
    /\ analysis = Pending
    /\ response.status # "none"
    /\ analysis' = AnalyzeConsentFormOf(response)
    /\ UNCHANGED <<response, ocr>>
    /\ UNCHANGED storeVars
    /\ UNCHANGED appVars

\* one call of OCRProcessor.extract_text_from_pdf
ExtractTextFromPdf ==
    /\ ocr.result.exc = "pending"
    /\ LET o == ExtractTextFromPdfOf(ocr.engine, ocr.exists, ocr.prim, ocr.sec1, ocr.sec2)
       IN  ocr' = [ocr EXCEPT !.result = o.result, !.primCalls = o.primCalls,
                              !.secCalls = o.secCalls]
    /\ UNCHANGED <<response, analysis>>
    /\ UNCHANGED storeVars
    /\ UNCHANGED appVars

\* the store after DatabaseManager.__init__: empty tables, no call running
InitStore ==
    /\ patients = {}
    /\ consents = {}
    /\ entity_index = {}
    /\ sess = [p \in Procs |-> IdleSess]
    /\ writer = 0
    /\ started = 0

\* no batch running, no session issued, no request served
InitApp ==
    /\ batch = NoBatch
    /\ sessions = <<>>
    /\ upload = NoUpload
    /\ qa = NoQuery
    /\ search = NoSearch
    /\ auth = NoAuth

\* the analyzer, about to be called with any capability outcome
InitAnalyze ==
    /\ response \in Responses
    /\ analysis = Pending
    /\ ocr = NoExtraction
    /\ InitStore
    /\ InitApp

NextAnalyze == AnalyzeConsentForm
SpecAnalyze == InitAnalyze /\ [][NextAnalyze]_vars

\* the extractor, about to be called
InitExtract ==
    /\ response = NoResponse
    /\ analysis = Pending
    /\ ocr \in ExtractionCalls
    /\ InitStore
    /\ InitApp

NextExtract == ExtractTextFromPdf
SpecExtract == InitExtract /\ [][NextExtract]_vars

\* the index builder, about to be called on a record
InitTerms ==
    /\ response = NoResponse
    /\ analysis = Pending
    /\ ocr = NoExtraction
    /\ InitStore
    /\ batch = NoBatch
    /\ sessions = <<>>
    /\ upload = NoUpload
    /\ qa = NoQuery
    /\ auth = NoAuth
    /\ search \in {[NoSearch EXCEPT !.pc = "call", !.rec = r] : r \in TermRecords}

NextTerms == GenerateSearchTerms
SpecTerms == InitTerms /\ [][NextTerms]_vars

\* concurrent ingestions into an empty store
Init ==
    /\ response = NoResponse
    /\ analysis = Pending
    /\ ocr = NoExtraction
    /\ InitStore
    /\ InitApp

Ingest(p) ==
    /\ \/ Begin(p)
       \/ QueryPatient(p)
       \/ CreatePatient(p)
       \/ CreateConsent(p)
       \/ CommitEntity(p)
       \/ CommitFails(p)
       \/ DatabaseLocked(p)
    /\ UNCHANGED <<response, analysis, ocr>>
    /\ UNCHANGED appVars

Next == \E p \in Procs : Ingest(p)
Spec == Init /\ [][Next]_vars

\* process_directory, about to be called on an empty store
InitBatch ==
    /\ response = NoResponse
    /\ analysis = Pending
    /\ ocr = NoExtraction
    /\ InitStore
    /\ batch = [NoBatch EXCEPT !.pc = "start"]
    /\ sessions = <<>>
    /\ upload = NoUpload
    /\ qa = NoQuery
    /\ search = NoSearch
    /\ auth = NoAuth

NextBatch ==
    \/ BatchStart
    \/ BatchProcessPdf
    \/ BatchStore
    \/ BatchCollect
    \/ BatchSummary

\* the batch is one sequential program: a step that can be taken is taken
SpecBatch == InitBatch /\ [][NextBatch]_vars /\ WF_vars(NextBatch)

\* the API serving an upload while the ingestion script runs
NextUpload ==
    \/ ScriptIngest
    \/ Login
    \/ Expire
    \/ UploadConsent
    \/ UploadEntity

SpecUpload == Init /\ [][NextUpload]_vars

\* the API answering a question while the ingestion script runs
NextQuery ==
    \/ ScriptIngest
    \/ Login
    \/ Expire
    \/ QueryEndpoint
    \/ AnswerQuery

SpecQuery == Init /\ [][NextQuery]_vars

\* the API serving the requests of sessions that expire and are logged out,
\* while the ingestion script runs
NextSession ==
    \/ ScriptIngest
    \/ Login
    \/ Expire
    \/ Logout
    \/ Stats
    \/ QueryEndpoint

SpecSession == Init /\ [][NextSession]_vars

\* the API serving login requests while the ingestion script runs
NextLogin ==
    \/ ScriptIngest
    \/ LoginRequest
    \/ Expire

SpecLogin == Init /\ [][NextLogin]_vars

\* process_pdf run from the command line on documents the capability
\* cannot analyze: every record is the all-defaults record
ScriptIngestDefaults ==
    /\ \/ BeginFrom(1, {GetDefaultAnalysis})
       \/ QueryPatient(1)
       \/ CreatePatient(1)
       \/ CreateConsent(1)
       \/ CommitEntity(1)
       \/ CommitFails(1)
    /\ UNCHANGED <<response, analysis, ocr>>
    /\ UNCHANGED appVars

\* the one request served after the logout request: stats, query or upload
StatsAfterLogout == auth # NoAuth /\ upload.pc = "idle" /\ Stats
QueryAfterLogout == auth # NoAuth /\ upload.pc = "idle" /\ QueryEndpoint
UploadAfterLogout == auth # NoAuth /\ qa = NoQuery /\ (UploadConsent \/ UploadEntity)

\* the API serving a logout and then a request, while the ingestion script
\* runs
NextLogout ==
    \/ ScriptIngestDefaults
    \/ Login
    \/ Expire
    \/ LogoutRequest
    \/ StatsAfterLogout
    \/ QueryAfterLogout
    \/ UploadAfterLogout

SpecLogout == Init /\ [][NextLogout]_vars

----------------------------------------------------------------------------
(* Structured extraction: claims C1-C3 (SpecAnalyze) *)

Analyzed == analysis # Pending

\* the JSON value the response text parses to, when it parses
Parsed(r) == JsonLoads(ResponseText(r))
ParsedObject(r) == r.status = "ok" /\ Parsed(r).exc = "none" /\ Parsed(r).val.kind = "dict"

\* the capability raised, or the text does not parse, or it parses to
\* something that is not an object
AnalysisFails(r) == ~ParsedObject(r)

C2_DefaultFilling ==
    (Analyzed /\ ParsedObject(response)) =>
        LET obj == Parsed(response).val.val
        IN  /\ analysis.exc = "none"
            /\ DOMAIN analysis.val = (DOMAIN obj) \cup RequiredKeys
            /\ \A k \in DOMAIN analysis.val :
                  analysis.val[k] =
                      IF k \in RequiredKeys /\ (k \notin DOMAIN obj \/ obj[k] = Null)
                      THEN GetDefaultAnalysis[k]
                      ELSE obj[k]

\* an object with an empty name, a null email, no date of birth and an extra key
C2_Witness ==
    /\ Analyzed
    /\ ParsedObject(response)
    /\ LET obj == Parsed(response).val.val
       IN  /\ DOMAIN obj = {"patient_name", "patient_email", "note"}
           /\ obj["patient_name"] = Str(S_Empty)
           /\ obj["patient_email"] = Null
    /\ analysis.val["patient_name"] = Str(S_Empty)
    /\ analysis.val["patient_email"] = Str(S_UnknownEmail)
    /\ analysis.val["note"] = Num(7)

\* C3 as stated: every returned record has all nine required fields present
\* and non-null.
C3_AllFieldsNonNull ==
    Analyzed =>
        /\ analysis.exc = "none"
        /\ \A k \in RequiredKeys : k \in DOMAIN analysis.val /\ analysis.val[k] # Null

NullableKeys == {"patient_dob", "procedure_date"}

\* C3 amended: every returned record has all nine required fields present;
\* all of them but patient_dob and procedure_date are non-null, and those
\* two are null exactly when the response gave no non-null value for them.
C3_AllFieldsPresent ==
    Analyzed =>
        /\ analysis.exc = "none"
        /\ RequiredKeys \subseteq DOMAIN analysis.val
        /\ \A k \in RequiredKeys \ NullableKeys : analysis.val[k] # Null
        /\ \A k \in NullableKeys :
              analysis.val[k] = Null <=>
                  \/ AnalysisFails(response)
                  \/ k \notin DOMAIN Parsed(response).val.val
                  \/ Parsed(response).val.val[k] = Null

\* well-formed JSON covering a subset of the fields: null name, no dates
C3_Witness ==
    /\ Analyzed
    /\ ParsedObject(response)
    /\ DOMAIN Parsed(response).val.val = {"patient_name", "patient_email"}
    /\ Parsed(response).val.val["patient_name"] = Null
    /\ analysis.val["patient_name"] = Str(S_Unknown)
    /\ analysis.val["patient_dob"] = Null
    /\ analysis.val["procedure_date"] = Null

----------------------------------------------------------------------------
(* Text extraction: claims C4, C5 (SpecExtract) *)

AutoCallDone == ocr.engine = "auto" /\ ocr.exists /\ ocr.result.exc # "pending"

\* C4 as stated: in auto mode a primary text of trimmed length >= 50 is
\* returned without invoking the secondary strategy.
C4_NoSecondaryAtLeast50 ==
    (AutoCallDone /\ ocr.prim.exc = "none" /\ StripLen(ocr.prim.text) >= 50) =>
        ocr.secCalls = 0 /\ ocr.result = ocr.prim

\* C4 amended: in auto mode a primary text of trimmed length > 50 (51 or
\* more) is returned without invoking the secondary strategy.
C4_NoSecondaryAbove50 ==
    (AutoCallDone /\ ocr.prim.exc = "none" /\ StripLen(ocr.prim.text) > 50) =>
        ocr.secCalls = 0 /\ ocr.result = ocr.prim

C4_Witness ==
    /\ AutoCallDone
    /\ ocr.prim.exc = "none"
    /\ StripLen(ocr.prim.text) = 51
    /\ ocr.primCalls = 1
    /\ ocr.secCalls = 0
    /\ ocr.result = ocr.prim

\* C5: in auto mode, when the primary yields fewer than 50 trimmed
\* characters or raises, the secondary strategy is invoked exactly once and
\* its outcome is the outcome of the call.
C5_SecondaryExactlyOnce ==
    (AutoCallDone /\ (ocr.prim.exc # "none" \/ StripLen(ocr.prim.text) < 50)) =>
        ocr.secCalls = 1 /\ ocr.result = ocr.sec1

----------------------------------------------------------------------------
(* Identity resolution: claims C6-C10 (Spec) *)

\* lower-cased emails of the records ingested successfully so far
SeenEmails == {Lower(e.patient_email.val) : e \in entity_index}

Done(p) == sess[p].pc = "done"
Succeeded(p) == Done(p) /\ sess[p].result.exc = "none"

\* C6: the committed store holds exactly one Patient row per lower-cased
\* email of a successfully ingested record, no two rows have emails equal
\* ignoring case, and there is no Patient without such a record.
C6_OnePatientPerEmail ==
    /\ \A e \in SeenEmails : Cardinality({r \in patients : r.email = e}) = 1
    /\ \A r, q \in patients : Lower(r.email) = Lower(q.email) => r = q
    /\ \A r \in patients : r.email \in SeenEmails

\* two documents whose emails differ only in case, under one Patient
C6_Witness ==
    /\ Cardinality(patients) = 1
    /\ \E e1, e2 \in entity_index :
          /\ e1.patient_email = Str(S_EmailUpper)
          /\ e2.patient_email = Str(S_EmailLower)
          /\ e1.patient_id = e2.patient_id
          /\ \E r \in patients : r.id = e1.patient_id /\ r.email = S_EmailLower

\* C7: an ingestion that finds an existing Patient reports that Patient and
\* a null plaintext credential.
C7_NoCredentialReissued ==
    \A p \in Procs :
        (Succeeded(p) /\ sess[p].found) =>
            /\ \E r \in patients : r.email = sess[p].email /\ r.id = sess[p].result.patient_id
            /\ sess[p].result.default_password = Null

\* C8: no attribute of a persisted Patient holds the plaintext credential;
\* the credential column holds a one-way hash only.
C8_OnlyHashPersisted ==
    \A r \in patients :
        LET pw == DefaultPassword(r.patient_name)
        IN  /\ r.password_hash.kind = "bcrypt"
            /\ r.email # pw
            /\ r.patient_name # pw
            /\ r.default_password # Str(pw)


\* C9: an ingestion that creates a Patient issues the first token of
\* patient_name, lower-cased, followed by "123!"; for an empty name or
\* "Unknown" it issues "unknown123!" and the creation succeeds.
C9_DefaultCredential ==
    \A p \in Procs :
        (Done(p) /\ ~sess[p].found
            /\ sess[p].result.exc \notin {"IntegrityError", "OperationalError", "CommitError"}) =>
            LET name == sess[p].rec["patient_name"].val
            IN  /\ sess[p].result.exc = "none"
                /\ name = S_MariaGarcia => sess[p].result.default_password = Str(S_Maria123)
                /\ name \in {S_Empty, S_Unknown} =>
                      sess[p].result.default_password = Str(S_Unknown123)

\* C10: the committed store never contains two Patient rows with one email,
\* under every interleaving of concurrent ingestions.
C10_NoDuplicatePatient ==
    \A r, q \in patients : r.email = q.email => r = q

\* both ingestions looked the new email up before either committed; one
\* created the Patient, the other's INSERT was rejected
C10_Witness ==
    \E p, q \in Procs :
        /\ p # q
        /\ sess[p].email = sess[q].email
        /\ Succeeded(p) /\ ~sess[p].found
        /\ Done(q) /\ ~sess[q].found /\ sess[q].result.exc = "IntegrityError"
        /\ Cardinality({r \in patients : r.email = sess[p].email}) = 1

----------------------------------------------------------------------------
(* Persistence of one document: claims C11-C13 (Spec) *)

\* C11: the ingestion that loses the race for a new email does not fail on
\* the uniqueness violation: no ingestion ends with IntegrityError.
C11_ConflictNotFatal ==
    \A p \in Procs : Done(p) => sess[p].result.exc # "IntegrityError"

\* the ingestion of p ends successfully in this step
Commits(p) == sess[p].pc = "entity" /\ sess'[p].pc = "done" /\ sess'[p].result.exc = "none"

\* the ingestion of p ends with an exception in this step
Fails(p) == sess[p].pc # "done" /\ sess'[p].pc = "done" /\ sess'[p].result.exc # "none"

\* C12: each successful ingestion adds exactly one Consent and exactly one
\* EntityIndex, which reference each other and the one Patient whose email
\* is the record's lower-cased patient_email.
C12_OnePairPerIngestion ==
    [][\A p \in Procs :
          Commits(p) =>
              \E c \in consents' \ consents, e \in entity_index' \ entity_index :
                  /\ consents' = consents \cup {c}
                  /\ entity_index' = entity_index \cup {e}
                  /\ e.consent_id = c.id
                  /\ e.patient_id = c.patient_id
                  /\ sess'[p].result.consent_id = c.id
                  /\ \E r \in patients' :
                        /\ r.id = c.patient_id
                        /\ r.email = Lower(sess[p].rec["patient_email"].val)
                        /\ \A q \in patients' : q.id = r.id => q = r]_vars

\* two documents of one normalized email: one Patient, two Consents and two
\* EntityIndex rows, all referencing it
C12_Witness ==
    /\ Cardinality(patients) = 1
    /\ Cardinality(consents) = 2
    /\ Cardinality(entity_index) = 2
    /\ \A r \in patients :
          /\ \A c \in consents : c.patient_id = r.id
          /\ \A e \in entity_index :
                /\ e.patient_id = r.id
                /\ Lower(e.patient_email.val) = r.email
                /\ \E c \in consents : c.id = e.consent_id
    /\ \A p \in Procs : Succeeded(p)

StoreUnchanged ==
    /\ patients' = patients
    /\ consents' = consents
    /\ entity_index' = entity_index

\* C13: an ingestion that fails at any step leaves the committed store as
\* it was and ends with the error; the store changes only in the single
\* commit of a successful ingestion, where the new Patient (if any), the
\* Consent and the EntityIndex appear together.
C13_AtomicPersistence ==
    [][/\ \A p \in Procs : Fails(p) => StoreUnchanged
       /\ ~StoreUnchanged =>
             \E p \in Procs :
                 /\ Commits(p)
                 /\ patients' = patients \cup sess[p].newPatients
                 /\ sess[p].newPatients # {} <=> ~sess[p].found
                 /\ Cardinality(consents' \ consents) = 1
                 /\ Cardinality(entity_index' \ entity_index) = 1
                 /\ \A q \in Procs \ {p} : sess'[q] = sess[q]]_vars

\* an ingestion that had flushed a new Patient and its Consent failed at the
\* commit: neither row is in the store
C13_Witness ==
    \E p \in Procs :
        /\ Done(p)
        /\ sess[p].result.exc = "CommitError"
        /\ ~sess[p].found
        /\ \A r \in patients : r.email # sess[p].email
        /\ \A c \in consents : c.filename # sess[p].doc
        /\ Cardinality(consents) = Cardinality(entity_index)

----------------------------------------------------------------------------
(* Consent and EntityIndex across both ingestion paths: claims C14, C15 *)
(* (SpecUpload)                                                         *)

\* C14: in every committed store state each Consent has exactly one
\* EntityIndex and each EntityIndex references exactly one Consent.
C14_ConsentEntityOneToOne ==
    /\ \A c \in consents : Cardinality({e \in entity_index : e.consent_id = c.id}) = 1
    /\ \A e \in entity_index : Cardinality({c \in consents : c.id = e.consent_id}) = 1

\* every EntityIndex carries the patient_id of the Consent it references
C15_SamePatient ==
    \A e \in entity_index :
        \E c \in consents : c.id = e.consent_id /\ c.patient_id = e.patient_id

\* C15: every EntityIndex row's patient_id equals the patient_id of the
\* Consent its consent_id references, and no step changes or removes a
\* committed Consent or EntityIndex row.
C15_PatientIdConsistent ==
    /\ []C15_SamePatient
    /\ [][consents \subseteq consents' /\ entity_index \subseteq entity_index']_vars

\* an upload answered with 200 whose analysis names another email than the
\* uploading patient's, next to a pair committed by the script
C15_Witness ==
    /\ upload.pc = "done"
    /\ upload.status = 200
    /\ \E e \in entity_index, r \in patients :
          /\ e.consent_id = upload.consent.id
          /\ r.id = e.patient_id
          /\ r.id = upload.patient_id
          /\ Lower(e.patient_email.val) # r.email
    /\ \E e \in entity_index, c \in consents :
          c.id = e.consent_id /\ c.filename # UploadName /\ c.patient_id = e.patient_id

----------------------------------------------------------------------------
(* Batch ingestion: claims C16-C18 (SpecBatch) *)

\* the failure process_directory printed for file k
Printed(k, reason) ==
    \E j \in 1..Len(batch.printed) :
        batch.printed[j].file = k /\ batch.printed[j].reason = reason

\* C16: a document whose extracted text is below the minimum length fails
\* with an insufficient-text error: the capability is not invoked for it and
\* nothing of it is persisted.
C16_ShortTextRejected ==
    \A k \in 1..Len(batch.log) :
        (/\ batch.log[k].extract.exc = "none"
         /\ TextLen(batch.log[k].extract.text) < MinUploadLen) =>
            /\ batch.log[k].capability = 0
            /\ \A c \in consents : c.filename # k
            /\ k < batch.i => Printed(k, "InsufficientTextError")

C17_Attempts ==
    \A k \in 1..batch.n :
        /\ batch.calls[k] <= 1
        /\ k < batch.i => batch.calls[k] = 1
        /\ batch.pc = "done" => batch.calls[k] = 1

\* C17: process_pdf is called exactly once for every PDF file listed,
\* whatever the outcomes of the others, and the batch runs to completion.
C17_EveryFileAttemptedOnce ==
    /\ []C17_Attempts
    /\ <>(batch.pc = "done")

\* a completed batch in which a file failed and a later file was stored
C17_Witness ==
    /\ batch.pc = "done"
    /\ batch.n >= 2
    /\ \A k \in 1..batch.n : batch.calls[k] = 1
    /\ \E j \in 1..Len(batch.printed), m \in 1..Len(batch.results) :
          batch.results[m].filename > batch.printed[j].file

\* C18: a batch over N documents yields a result sequence of length N, one
\* entry per document, failed documents recorded as failed with the reason.
C18_ResultPerDocument ==
    (batch.pc = "done" /\ batch.n > 0) =>
        /\ Len(batch.results) = batch.n
        /\ \A k \in 1..Len(batch.results) :
              /\ batch.results[k].filename = k
              /\ Printed(k, batch.results[k].exc) \/ batch.results[k].exc = "none"

----------------------------------------------------------------------------
(* Question answering: claims C19, C20 (SpecQuery) *)

\* C19: answer_query called with no entries returns the fixed "no records
\* found" message and does not invoke the capability.
C19_EmptyEntriesFixedMessage ==
    (qa.asked /\ qa.entries = <<>>) =>
        /\ qa.answer = NoConsentsMessage
        /\ qa.capability = 0

\* C20: whatever fails while answering (the capability call or the
\* formatting of the entries), the caller receives the fallback sentence,
\* never an exception or an error response.
C20_NeverSurfacesError ==
    qa.asked =>
        /\ qa.exc = "none"
        /\ qa.status \in {0, 200}
        /\ (qa.cap # "ok" \/ FormatConsentsForContext(qa.entries).exc # "none") =>
              qa.answer = FallbackMessage

----------------------------------------------------------------------------
(* Extraction failure: claim C24 (SpecExtract) *)

\* auto mode, the primary raised or was insufficient, and the call failed
AutoFailed ==
    /\ AutoCallDone
    /\ ocr.prim.exc # "none" \/ ~Sufficient(ocr.prim.text)
    /\ ocr.result.exc # "none"

\* C24: when auto-mode extraction fails in the secondary after the primary
\* failed or was insufficient, the failure is raised to the caller and its
\* error describes both causes, the primary's and the secondary's.
C24_BothCausesDescribed ==
    AutoFailed =>
        /\ ocr.result.exc = "Exception"
        /\ ocr.result.causes = {"pdfplumber", "tesseract"}

----------------------------------------------------------------------------
(* Parsing policy: claim C25 (SpecAnalyze) *)

\* the spans i..j of the text that are a well-formed JSON object
ObjectSpans(text) ==
    {sp \in (1..Len(text)) \X (1..Len(text)) :
        /\ sp[1] < sp[2]
        /\ text[sp[1]] = LBrace
        /\ text[sp[2]] = RBrace
        /\ JsonLoads(SubSeq(text, sp[1], sp[2])).exc = "none"}

\* the first well-formed object of the text: leftmost start, then shortest
FirstObjectSpan(text) ==
    CHOOSE sp \in ObjectSpans(text) :
        \A o \in ObjectSpans(text) :
            sp[1] < o[1] \/ (sp[1] = o[1] /\ sp[2] <= o[2])

\* C25: whenever the response contains a well-formed JSON object, with any
\* prose (braces included) before or after it, analyze_consent_form returns
\* the record validated from the first such object.
C25_FirstObjectParsed ==
    (Analyzed /\ response.status = "ok" /\ ObjectSpans(response.content) # {}) =>
        LET sp == FirstObjectSpan(response.content)
            obj == JsonLoads(SubSeq(response.content, sp[1], sp[2])).val
        IN  analysis = ValidateAnalysis(obj)

----------------------------------------------------------------------------
(* Canonical record shape: claim C26 (SpecAnalyze) *)

ItemKeys == {"consented_items", "declined_items"}

\* v is a JSON array of strings
IsStringList(v) == v.kind = "list" /\ \A i \in 1..Len(v.val) : v.val[i].kind = "str"

\* C26: every record returned by analyze_consent_form has exactly the nine
\* fields, consented_items and declined_items being arrays of strings and
\* every other field a string or null.
C26_CanonicalShape ==
    Analyzed =>
        /\ analysis.exc = "none"
        /\ DOMAIN analysis.val = RequiredKeys
        /\ \A k \in RequiredKeys :
              IF k \in ItemKeys THEN IsStringList(analysis.val[k])
              ELSE analysis.val[k].kind \in {"str", "null"}

----------------------------------------------------------------------------
(* Identity reuse and degraded analysis: claims C29, C30 (Spec) *)

\* C29: no step changes or deletes a committed Patient row, and an
\* ingestion that found its Patient leaves the table as it was, adding only
\* a Consent that references that Patient.
C29_ExistingPatientUnchanged ==
    [][/\ patients \subseteq patients'
       /\ \A p \in Procs :
             (Commits(p) /\ sess[p].found) =>
                 /\ patients' = patients
                 /\ \E c \in consents' \ consents : c.patient_id = sess[p].patient.id]_vars

\* a document stored under an existing Patient whose name differs from the
\* record's
C29_Witness ==
    \E p \in Procs, r \in patients :
        /\ Succeeded(p)
        /\ sess[p].found
        /\ r.id = sess[p].result.patient_id
        /\ r.email = sess[p].email
        /\ r.patient_name # sess[p].rec["patient_name"].val
        /\ \E c \in consents : c.filename = sess[p].doc /\ c.patient_id = r.id

\* C30: a document whose analysis degraded to the all-defaults record is
\* not failed by it: it ends stored under the one Patient of email
\* "unknown@example.com" with credential "unknown123!" (a failure of the
\* store itself, lock timeout or commit error, aside).
C30_DegradedAnalysisStored ==
    \A p \in Procs :
        (/\ Done(p)
         /\ sess[p].rec = GetDefaultAnalysis
         /\ sess[p].result.exc \notin {"OperationalError", "CommitError"}) =>
            /\ sess[p].result.exc = "none"
            /\ sess[p].result.patient_email = Str(S_UnknownEmail)
            /\ sess[p].result.default_password = Str(S_Unknown123)
            /\ \E r \in patients :
                  /\ r.email = S_UnknownEmail
                  /\ r.id = sess[p].result.patient_id
                  /\ \E c \in consents : c.filename = sess[p].doc /\ c.patient_id = r.id

----------------------------------------------------------------------------
(* Order of the steps of one ingestion: claim C28 (SpecBatch) *)

\* the moves of one process_pdf call: extract and analyze, lookup, Patient,
\* Consent, EntityIndex and commit; any step may end the call by failing
StepOrder ==
    {<<"idle", "query">>, <<"query", "create">>, <<"query", "consent">>,
     <<"create", "consent">>, <<"consent", "entity">>, <<"entity", "done">>,
     <<"idle", "done">>, <<"create", "done">>, <<"consent", "done">>, <<"done", "idle">>}

\* what the store and the log say about the files handled so far
C28_Ordered ==
    /\ \A k \in 1..Len(batch.log) :
          batch.log[k].extract.exc # "none" =>
              /\ batch.log[k].capability = 0
              /\ \A c \in consents : c.filename # k
              /\ k < batch.i => Printed(k, batch.log[k].extract.exc)
    /\ \A c \in consents :
          /\ c.filename \in 1..Len(batch.log)
          /\ batch.log[c.filename].extract.exc = "none"
          /\ batch.log[c.filename].capability = 1
          /\ \E r \in patients : r.id = c.patient_id
    /\ \A e \in entity_index : \E c \in consents : c.id = e.consent_id

\* C28: the steps of one ingestion run in the order extract, analyze,
\* resolve identity, persist Consent, persist EntityIndex; when extraction
\* fails the capability is not invoked for the document, the store is
\* unchanged and the failure reaches the caller.
C28_StepsInOrder ==
    /\ []C28_Ordered
    /\ [][/\ sess'[1].pc # sess[1].pc => <<sess[1].pc, sess'[1].pc>> \in StepOrder
          /\ ~StoreUnchanged => sess[1].pc = "entity" /\ sess'[1].pc = "done"
          /\ (sess[1].pc = "idle" /\ sess'[1].pc = "done") =>
                /\ StoreUnchanged
                /\ sess'[1].result.exc # "none"]_vars

\* a file whose extraction failed: no capability call, nothing stored, the
\* failure printed by the batch
C28_Witness ==
    \E k \in 1..Len(batch.log) :
        /\ batch.log[k].extract.exc # "none"
        /\ batch.log[k].capability = 0
        /\ Printed(k, batch.log[k].extract.exc)
        /\ \A c \in consents : c.filename # k
        /\ \E c \in consents : c.filename > k

\* the terms the description of the index builder lists for a record: the
\* lower-cased full name, name tokens, email, procedure and doctor name
C22_Expected(rec) ==
    LET val(k) == IF GetField(rec, k).kind = "str" THEN GetField(rec, k).val ELSE <<>>
        name == val("patient_name")
    IN  ({Lower(val(k)) : k \in TermKeys}
            \cup {Lower(Split(name)[i]) : i \in 1..Len(Split(name))}) \ {<<>>}

\* C22: whenever _generate_search_terms returns, its value is the space-join
\* of exactly the expected terms of the record, each occurring once and no
\* other; it returns for every record whose four fields are strings
C22_SearchTermsExact ==
    search.pc = "done" =>
        /\ (\A k \in TermKeys : GetField(search.rec, k).kind = "str") =>
                search.out.exc = "none"
        /\ search.out.exc = "none" =>
              /\ \A t \in C22_Expected(search.rec) :
                     Cardinality({i \in 1..Len(search.terms) : search.terms[i] = t}) = 1
              /\ SeqRange(search.terms) \subseteq C22_Expected(search.rec)
              /\ search.out.val = Str(Join(<<" ">>, search.terms))

\* a record whose name and doctor give the same term, answered with one copy
C22_Witness ==
    /\ search.pc = "done"
    /\ search.out.exc = "none"
    /\ search.rec["patient_name"] = Str(S_Unknown)
    /\ search.rec["doctor_name"] = Str(S_Unknown)
    /\ Len(search.terms) < Len(SearchTermList(search.rec))

\* the lower-cased name, email, procedure and doctor tokens of a row's record
C23_Tokens(e) ==
    UNION {SearchWords(Lower(f.val)) :
             f \in {g \in {e.patient_name, e.patient_email, e.procedure, e.doctor_name} :
                      g.kind = "str"}}

\* C23: every persisted EntityIndex, whichever path created it, carries as
\* search_terms the set of lower-cased name, email, procedure and doctor
\* tokens of its record, so rows of the same record agree
C23_SamePathProjection ==
    \A e \in entity_index :
        /\ e.search_terms = C23_Tokens(e)
        /\ \A f \in entity_index :
              (/\ e.patient_name = f.patient_name
               /\ e.patient_email = f.patient_email
               /\ e.procedure = f.procedure
               /\ e.doctor_name = f.doctor_name
               /\ e.consented_items = f.consented_items)
                  => e.search_terms = f.search_terms

----------------------------------------------------------------------------
(* Patient scoping and sessions: claims C21 (SpecQuery), C27 (SpecSession) *)

\* rows of other patients that a store agreeing on patient P's rows may
\* hold: the other patients' rows of this store, and P's rows filed once
\* more under another patient
C21_OtherRows(P) ==
    {e \in entity_index : e.patient_id # P}
        \cup {[e EXCEPT !.patient_id = P + 1, !.id = e.id + 100] :
                 e \in {f \in entity_index : f.patient_id = P}}

\* C21: the entries and the context of a query by patient P, and the
\* no-records reply, are those of every store that agrees on P's rows,
\* whatever rows of other patients it holds
C21_ScopedToPatient ==
    [][(/\ qa' # qa
        /\ qa'.kind = "endpoint"
        /\ qa'.asked \/ qa'.status = 200) =>
          LET P == qa'.patient_id
              own == {e \in entity_index : e.patient_id = P}
          IN  /\ P # 0
              /\ \A R \in SUBSET C21_OtherRows(P) :
                    LET entries == ConsentDataOf(own \cup R, P)
                    IN  /\ entries = qa'.entries
                        /\ qa'.asked => FormatConsentsForContext(entries) = qa'.context
                        /\ ~qa'.asked => entries = <<>> /\ qa'.answer = NoConsentsMessage]_vars

\* a question answered from the asking patient's rows while an older row of
\* another patient was in the store
C21_Witness ==
    /\ qa.kind = "endpoint"
    /\ qa.asked
    /\ Len(qa.entries) = Cardinality({e \in entity_index : e.patient_id = qa.patient_id})
    /\ \E e, o \in entity_index :
          /\ e.patient_id = qa.patient_id
          /\ o.patient_id # qa.patient_id
          /\ o.id < e.id

----------------------------------------------------------------------------
(* Login, logout, upload authorization: claims C31-C33 *)

\* C33: a login step adds a session row only when the typed email, stripped
\* and lower-cased, is that of an existing Patient whose stored hash
\* verifies the stripped password, and the row is that patient's; a login
\* answered otherwise adds no row, and an unknown email and a wrong
\* password are both answered 401 "Invalid credentials"
C33_LoginOnlyWithCredentials ==
    [][LET email == Lower(StripStr(auth'.email))
           password == StripStr(auth'.password)
           known == \E r \in patients : r.email = email
           verified == \E r \in patients : r.email = email /\ CheckPassword(r, password)
       IN  /\ (Len(sessions') # Len(sessions)) =>
                 /\ auth'.kind = "login" /\ auth'.status = 200
                 /\ verified
                 /\ \E r \in patients :
                       /\ r.email = email
                       /\ CheckPassword(r, password)
                       /\ sessions' = Append(sessions, [patient_id |-> r.id,
                                                        state |-> "live"])
           /\ (auth' # auth /\ auth'.status # 200) => sessions' = sessions
           /\ (auth' # auth /\ email # <<>> /\ password # <<>> /\ ~verified) =>
                 /\ auth'.status = 401
                 /\ auth'.error = "Invalid credentials"
                 /\ sessions' = sessions
           /\ (auth' # auth /\ (email = <<>> \/ password = <<>>)) =>
                 /\ auth'.status = 400
                 /\ sessions' = sessions]_vars

\* a wrong password for an existing Patient answered 401 with no session
\* created
C33_Witness ==
    /\ auth.kind = "login"
    /\ auth.status = 401
    /\ sessions = <<>>
    /\ \E r \in patients :
          /\ r.email = Lower(StripStr(auth.email))
          /\ ~CheckPassword(r, StripStr(auth.password))

\* C32: a step of the upload endpoint leaves table patients as it is; the
\* Consent and the EntityIndex it adds carry the patient_id of the session
\* whose token the request presented, whatever email the analysis names;
\* a request whose token is not that of a live session adds no row and
\* calls neither the extraction nor the capability
C32_UploadBoundToSession ==
    [][(upload' # upload) =>
          LET t == upload'.token
              live == t \in DOMAIN sessions /\ sessions[t].state = "live"
          IN  /\ patients' = patients
              /\ upload.pc = "idle" =>
                    /\ ~live =>
                          /\ upload'.pc = "done"
                          /\ upload'.status \in {401, 500}
                          /\ upload'.extract = 0
                          /\ upload'.capability = 0
                          /\ consents' = consents
                    /\ entity_index' = entity_index
                    /\ \A c \in consents' \ consents :
                          /\ consents' = consents \cup {c}
                          /\ c.patient_id = sessions[t].patient_id
                          /\ upload'.patient_id = c.patient_id
                          /\ upload'.consent = c
              /\ upload.pc = "entity" =>
                    /\ consents' = consents
                    /\ t \in DOMAIN sessions
                    /\ \A e \in entity_index' \ entity_index :
                          /\ entity_index' = entity_index \cup {e}
                          /\ e.patient_id = sessions[t].patient_id
                          /\ e.consent_id = upload.consent.id
                          /\ upload.consent.patient_id = e.patient_id]_vars

\* an upload stored under the session's patient although the analysis names
\* the email of another existing Patient
C32_Witness ==
    /\ upload.pc = "done"
    /\ upload.status = 200
    /\ upload.token \in DOMAIN sessions
    /\ upload.patient_id = sessions[upload.token].patient_id
    /\ \E r \in patients :
          /\ r.email = Lower(upload.rec["patient_email"].val)
          /\ r.id # upload.patient_id
    /\ \E e \in entity_index, c \in consents :
          /\ c = upload.consent
          /\ e.consent_id = c.id
          /\ e.patient_id = upload.patient_id
          /\ c.patient_id = upload.patient_id

\* the logout request followed carried the token of a session row
C31_LogoutOfSession == auth.kind = "logout" /\ auth.token \in DOMAIN sessions

\* C31: after a logout request carrying a session token the session row no
\* longer exists and the token is rejected by every later validate_session
\* call (query, stats and upload answer 401); logout with an unknown token
\* succeeds and changes no session row
C31_LogoutRevokes ==
    /\ [](C31_LogoutOfSession =>
             /\ sessions[auth.token].state = "deleted"
             /\ ValidateSession(auth.token).patient_id = 0)
    /\ [][/\ (C31_LogoutOfSession /\ qa' # qa /\ qa'.token = auth.token) =>
                 qa'.status = 401
          /\ (C31_LogoutOfSession /\ upload.pc = "idle" /\ upload' # upload
                 /\ upload'.token = auth.token) => upload'.status = 401
          /\ (auth' # auth /\ auth'.token = UnknownToken) =>
                 auth'.status = 200 /\ sessions' = sessions]_vars

\* C31 amended: after a logout request carrying a session token that was
\* answered 200 the session row no longer exists, for good, and the token is
\* rejected by every later validate_session call (query, stats and upload
\* answer 401); the request is answered 500, and the row stays as it was,
\* only when the store was locked by another transaction; logout with an
\* unknown token is answered 200 and changes no session row
C31_SuccessfulLogoutRevokes ==
    /\ []((C31_LogoutOfSession /\ auth.status = 200) =>
             /\ sessions[auth.token].state = "deleted"
             /\ ValidateSession(auth.token).patient_id = 0
             /\ ValidateSession(auth.token).exc = "none"
             /\ ValidateSession(auth.token).sessions = sessions)
    /\ [][/\ (C31_LogoutOfSession /\ auth.status = 200 /\ qa' # qa
                 /\ qa'.token = auth.token) =>
                 qa'.status = 401 /\ qa'.patient_id = 0
          /\ (C31_LogoutOfSession /\ auth.status = 200 /\ upload.pc = "idle"
                 /\ upload' # upload /\ upload'.token = auth.token) =>
                 upload'.status = 401 /\ upload'.pc = "done"
          /\ (auth' # auth /\ auth'.token \in DOMAIN sessions) =>
                 /\ auth'.status \in {200, 500}
                 /\ auth'.status = 200 =>
                       sessions' = [sessions EXCEPT ![auth'.token].state = "deleted"]
                 /\ auth'.status = 500 =>
                       /\ writer # 0
                       /\ sessions[auth'.token].state # "deleted"
                       /\ sessions' = sessions
          /\ (auth' # auth /\ auth'.token = UnknownToken) =>
                 auth'.status = 200 /\ sessions' = sessions]_vars

\* a live session logged out with 200, and a later request with its token
\* answered 401
C31_Witness ==
    /\ C31_LogoutOfSession
    /\ auth.status = 200
    /\ sessions[auth.token].state = "deleted"
    /\ \/ qa.kind \in {"stats", "endpoint"} /\ qa.token = auth.token /\ qa.status = 401
       \/ upload.pc = "done" /\ upload.token = auth.token /\ upload.status = 401

====
